---------------------------- MODULE Spec2Model ----------------------------
(***************************************************************************)
(* Model of the thread-pool file server (file_server_thread_pool.py): the  *)
(* listener thread ServerThreadPool.run, the shutdown() call made from the *)
(* main thread, the executor's workers running process_client_request, and *)
(* the clients that feed them byte streams cut into recv() chunks.         *)
(***************************************************************************)
EXTENDS Integers, Sequences, FiniteSets, TLC

(***************************************************************************)
(* Bounds of the model.                                                    *)
(***************************************************************************)
MaxConns == 2
MaxWorkers == 2

(***************************************************************************)
(* Program constants.                                                      *)
(***************************************************************************)
RecvBufSize == 65536
ListenBacklog == 50

Conns == 1..MaxConns
Workers == 1..MaxWorkers
\* The value of a worker's or the listener's connection slot when it holds none.
NoConn == CHOOSE n \in 0..MaxConns : n \notin Conns

(***************************************************************************)
(* Bytes and text.  A byte string is a sequence of one-character strings;  *)
(* xFF stands for a byte that is not valid UTF-8.                          *)
(***************************************************************************)
CR == "\r"
LF == "\n"
SP == " "
BadByte == "xFF"
Delim == <<CR, LF, CR, LF>>

Min(a, b) == IF a < b THEN a ELSE b

\* bytes.find(b"\r\n\r\n"): the first index (1-based) of the delimiter, 0 for
\* Python's -1.
Find(buf) ==
    LET hits == {i \in 1..Len(buf) : i + 3 <= Len(buf) /\ SubSeq(buf, i, i + 3) = Delim}
    IN  IF hits = {} THEN 0 ELSE CHOOSE i \in hits : \A j \in hits : i <= j

\* bytes.decode('utf-8'): fails on a byte that is not UTF-8, else the text.
Utf8Ok(bytes) == \A i \in 1..Len(bytes) : bytes[i] # BadByte
Decode(bytes) == [i \in 1..Len(bytes) |-> bytes[i]]

\* str.encode('utf-8') of ASCII text.
Encode(str) == [i \in 1..Len(str) |-> str[i]]

LowerToUpper ==
    [a |-> "A", b |-> "B", c |-> "C", d |-> "D", e |-> "E", g |-> "G",
     i |-> "I", l |-> "L", o |-> "O", p |-> "P", s |-> "S", t |-> "T",
     u |-> "U"]

\* str.upper()
Upper(str) ==
    [i \in 1..Len(str) |->
        IF str[i] \in DOMAIN LowerToUpper THEN LowerToUpper[str[i]] ELSE str[i]]

FirstSpace(str) ==
    LET hits == {i \in 1..Len(str) : str[i] = SP}
    IN  IF hits = {} THEN 0 ELSE CHOOSE i \in hits : \A j \in hits : i <= j

\* str.split(' ', maxsplit)
RECURSIVE Split(_, _)
Split(str, maxsplit) ==
    IF maxsplit = 0 \/ FirstSpace(str) = 0
    THEN <<str>>
    ELSE <<SubSeq(str, 1, FirstSpace(str) - 1)>>
            \o Split(SubSeq(str, FirstSpace(str) + 1, Len(str)), maxsplit - 1)

(***************************************************************************)
(* Base64 (base64.b64encode / b64decode).  File contents are sequences of   *)
(* byte values 0..255; the encoded text is a sequence of characters.       *)
(***************************************************************************)
B64Alphabet ==
    <<
      "A", "B", "C", "D", "E", "F", "G", "H", "I", "J", "K", "L", "M", "N", "O", "P",
      "Q", "R", "S", "T", "U", "V", "W", "X", "Y", "Z", "a", "b", "c", "d", "e", "f",
      "g", "h", "i", "j", "k", "l", "m", "n", "o", "p", "q", "r", "s", "t", "u", "v",
      "w", "x", "y", "z", "0", "1", "2", "3", "4", "5", "6", "7", "8", "9", "+", "/"
    >>
Pad == "="

B64Index(ch) == (CHOOSE i \in 1..64 : B64Alphabet[i] = ch) - 1
IsB64Char(ch) == \E i \in 1..64 : B64Alphabet[i] = ch

\* One group of up to three bytes to four characters.
B64Group(g) ==
    LET n  == Len(g)
        b2 == IF n >= 2 THEN g[2] ELSE 0
        b3 == IF n >= 3 THEN g[3] ELSE 0
        v  == g[1] * 65536 + b2 * 256 + b3
    IN  << B64Alphabet[(v \div 262144) + 1],
           B64Alphabet[((v \div 4096) % 64) + 1],
           IF n >= 2 THEN B64Alphabet[((v \div 64) % 64) + 1] ELSE Pad,
           IF n >= 3 THEN B64Alphabet[(v % 64) + 1] ELSE Pad >>

RECURSIVE B64Encode(_)
B64Encode(content) ==
    IF Len(content) = 0 THEN <<>>
    ELSE B64Group(SubSeq(content, 1, Min(3, Len(content))))
            \o B64Encode(SubSeq(content, Min(3, Len(content)) + 1, Len(content)))

\* A quad of characters is well formed when it is xxxx, xxx= or xx==, the
\* padded forms only as the last quad.
QuadOk(q, last) ==
    /\ IsB64Char(q[1]) /\ IsB64Char(q[2])
    /\ \/ IsB64Char(q[3]) /\ IsB64Char(q[4])
       \/ last /\ IsB64Char(q[3]) /\ q[4] = Pad
       \/ last /\ q[3] = Pad /\ q[4] = Pad

RECURSIVE B64Valid(_)
B64Valid(text) ==
    IF Len(text) = 0 THEN TRUE
    ELSE /\ Len(text) >= 4
         /\ QuadOk(SubSeq(text, 1, 4), Len(text) = 4)
         /\ B64Valid(SubSeq(text, 5, Len(text)))

B64Quad(q) ==
    LET c3 == IF q[3] = Pad THEN 0 ELSE B64Index(q[3])
        c4 == IF q[4] = Pad THEN 0 ELSE B64Index(q[4])
        v  == B64Index(q[1]) * 262144 + B64Index(q[2]) * 4096 + c3 * 64 + c4
    IN  IF q[3] = Pad THEN << v \div 65536 >>
        ELSE IF q[4] = Pad THEN << v \div 65536, (v \div 256) % 256 >>
        ELSE << v \div 65536, (v \div 256) % 256, v % 256 >>

RECURSIVE B64Decode(_)
B64Decode(text) ==
    IF Len(text) = 0 THEN <<>>
    ELSE B64Quad(SubSeq(text, 1, 4)) \o B64Decode(SubSeq(text, 5, Len(text)))

(***************************************************************************)
(* Responses (hasil_dict).  Every response has the same fields so that two *)
(* of them can always be compared; a field a Python dict would not hold is *)
(* left empty.  Unbound is the local variable hasil_dict before its first  *)
(* assignment.                                                             *)
(***************************************************************************)
Resp(status, data) ==
    [status |-> status, data |-> data, arg |-> <<>>, names |-> {},
     data_namafile |-> <<>>, data_file |-> <<>>]
Unbound == Resp("UNBOUND", "")

(***************************************************************************)
(* The file store behind FileInterface: a function from the names of the   *)
(* files that exist to their contents.  Each operation yields the response *)
(* and the store it leaves.                                                *)
(***************************************************************************)
Write(store, name, content) ==
    [n \in DOMAIN store \cup {name} |-> IF n = name THEN content ELSE store[n]]
Remove(store, name) == [n \in DOMAIN store \ {name} |-> store[n]]

\* FileInterface.upload(filename, base64 text)
fp_upload(store, name, text) ==
    IF B64Valid(text)
    THEN [hasil |-> Resp("OK", "uploaded"), store |-> Write(store, name, B64Decode(text))]
    ELSE [hasil |-> Resp("ERROR", "bad base64"), store |-> store]

\* FileInterface.get(params)
fp_get(store, params) ==
    IF Len(params) >= 1 /\ params[1] \in DOMAIN store
    THEN [hasil |-> [Resp("OK", "") EXCEPT !.data_namafile = params[1],
                                           !.data_file = B64Encode(store[params[1]])],
          store |-> store]
    ELSE [hasil |-> Resp("ERROR", "file not found"), store |-> store]

\* FileInterface.list(params)
fp_list(store, params) ==
    [hasil |-> [Resp("OK", "") EXCEPT !.names = DOMAIN store], store |-> store]

\* FileInterface.delete(params)
fp_delete(store, params) ==
    IF Len(params) >= 1 /\ params[1] \in DOMAIN store
    THEN [hasil |-> Resp("OK", "deleted"), store |-> Remove(store, params[1])]
    ELSE [hasil |-> Resp("ERROR", "file not found"), store |-> store]

(***************************************************************************)
(* process_client_request, the part after the receive loop: framing of the *)
(* buffer, parsing of the header and the dispatch of the command.          *)
(***************************************************************************)
Framed(buf) == Find(buf) # 0
HeaderBytes(buf) == SubSeq(buf, 1, Find(buf) - 1)
FileBodyBytes(buf) == SubSeq(buf, Find(buf) + 4, Len(buf))

Parts(header_str) == Split(header_str, 2)
\* Command without .upper(): the word is matched as the client wrote it.
Command_NoUpper(header_str) == Parts(header_str)[1]

Command(header_str) == Upper(Parts(header_str)[1])
\* Params with a default filename when the header carries none.
Params_DefaultName(header_str) ==
    IF Len(Parts(header_str)) > 1 THEN Tail(Parts(header_str)) ELSE <<<<"d">>>>

Params(header_str) == Tail(Parts(header_str))

CmdUPLOAD == <<"U", "P", "L", "O", "A", "D">>
CmdLIST == <<"L", "I", "S", "T">>
CmdGET == <<"G", "E", "T">>
CmdDELETE == <<"D", "E", "L", "E", "T", "E">>

\* One file-store invocation, as the worker made it.
Call(op, params, text) == [op |-> op, params |-> params, text |-> text]

\* UnknownCommand with the else branch falling through to LIST.
UnknownCommand_AsList(store, command) ==
    [hasil |-> fp_list(store, <<>>).hasil, store |-> store,
     calls |-> <<Call("list", <<>>, <<>>)>>]

\* else: hasil_dict = dict(status='ERROR', data=f'Unknown command: {command}')
UnknownCommand(store, command) ==
    [hasil |-> [Resp("ERROR", "Unknown command") EXCEPT !.arg = command],
     store |-> store, calls |-> <<>>]

\* The if/elif chain on the command: the response, the store afterwards and
\* the file-store invocations made.  io_ok = FALSE is a file-store call that
\* raises (disk full, permission).
Execute(store, header_str, body, io_ok) ==
    LET command == Command(header_str)
        params  == Params(header_str)
        raised(msg, call) == [hasil |-> Resp("ERROR", msg), store |-> store,
                              calls |-> <<call>>]
        done(r, call) == [hasil |-> r.hasil, store |-> r.store, calls |-> <<call>>]
    IN  IF command = CmdUPLOAD THEN
            IF Len(params) < 1 THEN
                [hasil |-> Resp("ERROR", "Filename missing for UPLOAD."),
                 store |-> store, calls |-> <<>>]
            ELSE IF ~Utf8Ok(body) THEN
                [hasil |-> Resp("ERROR", "Failed to decode file content."),
                 store |-> store, calls |-> <<>>]
            ELSE IF ~io_ok THEN
                raised("Server internal error during UPLOAD",
                       Call("upload", <<params[1]>>, Decode(body)))
            ELSE done(fp_upload(store, params[1], Decode(body)),
                      Call("upload", <<params[1]>>, Decode(body)))
        ELSE IF command = CmdLIST THEN
            IF ~io_ok THEN raised("Server internal error", Call("list", params, <<>>))
            ELSE done(fp_list(store, params), Call("list", params, <<>>))
        ELSE IF command = CmdGET THEN
            IF ~io_ok THEN raised("Server internal error", Call("get", params, <<>>))
            ELSE done(fp_get(store, params), Call("get", params, <<>>))
        ELSE IF command = CmdDELETE THEN
            IF ~io_ok THEN raised("Server internal error", Call("delete", params, <<>>))
            ELSE done(fp_delete(store, params), Call("delete", params, <<>>))
        ELSE UnknownCommand(store, command)

(***************************************************************************)
(* Clients.  A request is the byte stream a client writes and what it does *)
(* once everything is written: "wait" for the response with the socket     *)
(* open, "close" its side, or "drop": stay connected and silent, and be     *)
(* gone by the time the server writes.                                     *)
(***************************************************************************)
Request(stream, end) == [stream |-> stream, end |-> end]

\* file_client_stress_test.send_and_receive_command(sock, command_str, b64)
StressRequest(command_str, file_content_b64) ==
    Request(Encode(command_str) \o Delim \o Encode(file_content_b64), "wait")

NameA == <<"a">>
NameB == <<"b">>
ContentA == <<65>>
ContentB == <<66>>

\* What the clients of the model send.
UploadA == StressRequest(CmdUPLOAD \o <<SP>> \o NameA, B64Encode(ContentA))
UploadB == StressRequest(CmdUPLOAD \o <<SP>> \o NameB, B64Encode(ContentB))
GetA == StressRequest(CmdGET \o <<SP>> \o NameA, <<>>)
\* connects and closes without a byte
Silent == Request(<<>>, "close")
\* writes a command without the delimiter and stays idle
Idle == Request(CmdLIST, "wait")
\* writes the delimiter alone: an empty header
EmptyHeader == Request(Delim, "wait")
\* an upload of other content under the name of UploadA
UploadA2 == StressRequest(CmdUPLOAD \o <<SP>> \o NameA, B64Encode(ContentB))
\* file_client_cli.send_command(command_str): the command and the delimiter
CliRequest(command_str) == Request(Encode(command_str) \o Delim, "wait")
\* file_client_cli.remote_upload: UPLOAD name payload, all in the header line
CliUpload == CliRequest(CmdUPLOAD \o <<SP>> \o NameA \o <<SP>> \o B64Encode(ContentA))
\* an upload of a file of four bytes: eight characters of base64
ContentLong == <<65, 66, 67, 68>>
UploadLong == StressRequest(CmdUPLOAD \o <<SP>> \o NameA, B64Encode(ContentLong))
\* an upload whose body ends in a byte that is not UTF-8
UploadBad ==
    Request(Encode(CmdUPLOAD \o <<SP>> \o NameA) \o Delim
                \o Encode(B64Encode(ContentA)) \o <<BadByte>>, "wait")

\* The same, by name: the menus of the specifications hold the names.
Script(id) ==
    CASE id = "UploadA" -> UploadA
      [] id = "UploadB" -> UploadB
      [] id = "GetA" -> GetA
      [] id = "Silent" -> Silent
      [] id = "Idle" -> Idle
      [] id = "EmptyHeader" -> EmptyHeader
      [] id = "UploadBad" -> UploadBad
      [] id = "UploadA2" -> UploadA2
      [] OTHER -> Request(<<>>, "none")

PoolMenu == {"UploadA", "UploadB", "GetA", "Silent", "Idle", "EmptyHeader"}

NoRequest == Request(<<>>, "none")

(***************************************************************************)
(* The requests one connection is tried with: every casing of the four     *)
(* commands, words that are no command, uploads without a name or with a   *)
(* body that is not UTF-8, and the streams that never frame a request.     *)
(***************************************************************************)
Lower(ch) ==
    IF \E l \in DOMAIN LowerToUpper : LowerToUpper[l] = ch
    THEN CHOOSE l \in DOMAIN LowerToUpper : LowerToUpper[l] = ch
    ELSE ch

\* The ways to write word in upper and lower case letters.
RECURSIVE Casings(_)
Casings(word) ==
    IF word = <<>> THEN {<<>>}
    ELSE {<<h>> \o t : h \in {Head(word), Lower(Head(word))}, t \in Casings(Tail(word))}

\* Words that are no command, each with what str.upper() makes of it.
UnknownWords ==
    { <<<<"p", "u", "t">>, <<"P", "U", "T">>>>,
      <<<<"L", "I", "S", "T", "S">>, <<"L", "I", "S", "T", "S">>>>,
      <<<<"g", "e", "t", "s">>, <<"G", "E", "T", "S">>>>,
      <<<<"D", "e", "l">>, <<"D", "E", "L">>>>,
      <<<<"U", "P">>, <<"U", "P">>>> }

\* Bodies sent with an UPLOAD: none, base64, and bytes that are not UTF-8.
GoodBodies == {<<>>, B64Encode(ContentA)}
BadBodies == {<<BadByte>>, B64Encode(ContentA) \o <<BadByte>>}

\* COMMAND ARG, delimiter, body (send_command, send_and_receive_command)
Framing(header, body, end) == Request(Encode(header) \o Delim \o body, end)

ListRequests == {Framing(w, <<>>, "wait") : w \in Casings(CmdLIST)}
GetRequests == {Framing(w \o <<SP>> \o NameA, <<>>, "wait") : w \in Casings(CmdGET)}
DeleteRequests ==
    {Framing(w \o <<SP>> \o NameA, <<>>, "wait") : w \in Casings(CmdDELETE)}
UploadRequests ==
    {Framing(w \o <<SP>> \o NameA, B64Encode(ContentA), "wait") : w \in Casings(CmdUPLOAD)}
NamelessUploads ==
    {Framing(w, b, "wait") : w \in Casings(CmdUPLOAD), b \in GoodBodies \cup BadBodies}
UndecodableUploads ==
    {Framing(CmdUPLOAD \o <<SP>> \o NameA, b, "wait") : b \in BadBodies}
UnknownRequests ==
    {Framing(u[1], <<>>, "wait") : u \in UnknownWords}
        \cup {Framing(u[1] \o <<SP>> \o NameA, B64Encode(ContentA), "wait") : u \in UnknownWords}
\* a second argument after the filename
TwoArgRequests ==
    {Framing(CmdGET \o <<SP>> \o NameA \o <<SP>> \o NameB, <<>>, "wait"),
     Framing(CmdDELETE \o <<SP>> \o NameA \o <<SP>> \o NameB, <<>>, "wait"),
     Framing(CmdUPLOAD \o <<SP>> \o NameA \o <<SP>> \o NameB, B64Encode(ContentA), "wait")}
\* a header that is not UTF-8
UndecodableHeader == Request(<<BadByte>> \o Delim, "wait")
\* no delimiter ever: the client waits, is gone at the timeout, or closes
Unframed ==
    {Request(h, e) : h \in {CmdLIST, CmdGET \o <<SP>> \o NameA}, e \in {"wait", "drop", "close"}}
        \cup {Silent, Request(<<>>, "wait")}
\* the delimiter with nothing in front of it
EmptyHeaders == {EmptyHeader, Request(Delim \o B64Encode(ContentA), "wait")}
\* a whole request from a client that is gone when the answer is written
Leaving ==
    {Framing(CmdLIST, <<>>, "drop"),
     Framing(CmdUPLOAD \o <<SP>> \o NameA, B64Encode(ContentA), "drop"),
     Framing(CmdDELETE \o <<SP>> \o NameA, <<>>, "drop")}

\* two requests written back to back on one connection
Firsts ==
    {Framing(CmdLIST, <<>>, "wait"), Framing(CmdGET \o <<SP>> \o NameA, <<>>, "wait"),
     Framing(CmdDELETE \o <<SP>> \o NameA, <<>>, "wait")}
Seconds ==
    {Framing(CmdDELETE \o <<SP>> \o NameA, <<>>, "wait"),
     Framing(CmdUPLOAD \o <<SP>> \o NameB, B64Encode(ContentB), "wait")}
Pipeline(first, second) == Request(first.stream \o second.stream, "wait")
Pipelined == {Pipeline(f, s) : f \in Firsts, s \in Seconds}

HandlerInputs ==
    ListRequests \cup GetRequests \cup DeleteRequests \cup UploadRequests
        \cup NamelessUploads \cup UndecodableUploads \cup UnknownRequests
        \cup TwoArgRequests
        \cup {UndecodableHeader} \cup Unframed \cup EmptyHeaders \cup Leaving
        \cup Pipelined \cup {CliUpload}

(***************************************************************************)
(* State.                                                                  *)
(***************************************************************************)
VARIABLES
    num_workers,     \* ThreadPoolExecutor(max_workers=num_workers)
    my_socket,       \* the listening socket: "new", "listening", "closed"
    shutdown_event,  \* self._shutdown_event
    run_pc,          \* where ServerThreadPool.run is
    sd_pc,           \* where ServerThreadPool.shutdown is
    connection,      \* run's local variable: the connection just accepted
    backlog,         \* connections waiting in the OS accept queue
    work_queue,      \* the executor's queue of submitted tasks
    worker,          \* worker -> the connection it is processing, or NoConn
    request,         \* connection -> what its client sends (a Request)
    cstate,          \* connection -> where it is in its life
    recvd,           \* connection -> length of full_data_buffer
    hasil_dict,      \* connection -> the handler's local hasil_dict
    sock_open,       \* connection -> the server's socket for it is open
    sent,            \* connection -> the responses written to it
    escaped,         \* connection -> an exception left process_client_request
    fp_calls,        \* connection -> the file-store invocations made for it
    files            \* the file store

vars == <<num_workers, my_socket, shutdown_event, run_pc, sd_pc, connection,
          backlog, work_queue, worker, request, cstate, recvd, hasil_dict,
          sock_open, sent, escaped, fp_calls, files>>

listener_vars == <<my_socket, shutdown_event, run_pc, sd_pc, connection, backlog>>
conn_vars == <<request, cstate, recvd, hasil_dict, sock_open, sent, escaped, fp_calls>>

EmptyStore == [n \in {} |-> <<>>]

Init ==
    /\ num_workers \in 1..MaxWorkers
    /\ my_socket = "new"
    /\ shutdown_event = FALSE
    /\ run_pc = "bind"
    /\ sd_pc = "idle"
    /\ connection = NoConn
    /\ backlog = <<>>
    /\ work_queue = <<>>
    /\ worker = [w \in Workers |-> NoConn]
    /\ request = [c \in Conns |-> NoRequest]
    /\ cstate = [c \in Conns |-> "none"]
    /\ recvd = [c \in Conns |-> 0]
    /\ hasil_dict = [c \in Conns |-> Unbound]
    /\ sock_open = [c \in Conns |-> FALSE]
    /\ sent = [c \in Conns |-> <<>>]
    /\ escaped = [c \in Conns |-> FALSE]
    /\ fp_calls = [c \in Conns |-> <<>>]
    /\ files = EmptyStore

Stream(c) == request[c].stream
ClientEnd(c) == request[c].end
full_data_buffer(c) == SubSeq(Stream(c), 1, recvd[c])

(***************************************************************************)
(* Clients connect in the order of their numbers; the connection waits in  *)
(* the accept backlog of the listening socket.                             *)
(***************************************************************************)
ClientConnect(r) ==
    /\ my_socket = "listening"
    /\ Len(backlog) < ListenBacklog
    /\ \E c \in Conns :
        /\ cstate[c] = "none"
        /\ \A d \in Conns : d < c => cstate[d] # "none"
        /\ request' = [request EXCEPT ![c] = Script(r)]
        /\ cstate' = [cstate EXCEPT ![c] = "backlog"]
        /\ backlog' = Append(backlog, c)
    /\ UNCHANGED <<num_workers, my_socket, shutdown_event, run_pc, sd_pc, connection,
                   work_queue, worker, recvd, hasil_dict, sock_open, sent, escaped,
                   fp_calls, files>>

\* Closing the listening socket resets the connections still in its backlog.
ResetBacklog(cs) ==
    [c \in Conns |-> IF cs[c] = "backlog" THEN "reset" ELSE cs[c]]

(***************************************************************************)
(* ServerThreadPool.run, the listener thread.                              *)
(***************************************************************************)
\* bind, listen(50), settimeout(1.0): fails when the port is taken or when
\* shutdown() has closed the socket already; the outer except logs it.
RunBind ==
    /\ run_pc = "bind"
    /\ \/ /\ my_socket = "new"
          /\ my_socket' = "listening"
          /\ run_pc' = "loop"
       \/ /\ run_pc' = "finally"
          /\ UNCHANGED my_socket
    /\ UNCHANGED <<num_workers, shutdown_event, sd_pc, connection, backlog,
                   work_queue, worker, files>>
    /\ UNCHANGED conn_vars

\* while not self._shutdown_event.is_set():
RunLoopTest ==
    /\ run_pc = "loop"
    /\ run_pc' = IF shutdown_event THEN "finally" ELSE "accept"
    /\ UNCHANGED <<num_workers, my_socket, shutdown_event, sd_pc, connection,
                   backlog, work_queue, worker, files>>
    /\ UNCHANGED conn_vars

\* accept() returns the oldest waiting connection.
RunAccept ==
    /\ run_pc = "accept"
    /\ my_socket = "listening"
    /\ backlog # <<>>
    /\ connection' = Head(backlog)
    /\ backlog' = Tail(backlog)
    /\ cstate' = [cstate EXCEPT ![Head(backlog)] = "accepted"]
    /\ sock_open' = [sock_open EXCEPT ![Head(backlog)] = TRUE]
    /\ run_pc' = "check"
    /\ UNCHANGED <<num_workers, my_socket, shutdown_event, sd_pc, work_queue,
                   worker, request, recvd, hasil_dict, sent, escaped, fp_calls,
                   files>>

\* accept() raises socket.timeout after one second without a connection.
RunAcceptTimeout ==
    /\ run_pc = "accept"
    /\ my_socket = "listening"
    /\ backlog = <<>>
    /\ run_pc' = "loop"
    /\ UNCHANGED <<num_workers, my_socket, shutdown_event, sd_pc, connection,
                   backlog, work_queue, worker, files>>
    /\ UNCHANGED conn_vars

\* accept() raises anything else (the socket was closed by shutdown(), or
\* the call failed): logged, then break.
RunAcceptError ==
    /\ run_pc = "accept"
    /\ my_socket \in {"listening", "closed"}
    /\ run_pc' = "finally"
    /\ UNCHANGED <<num_workers, my_socket, shutdown_event, sd_pc, connection,
                   backlog, work_queue, worker, files>>
    /\ UNCHANGED conn_vars

\* if not self._shutdown_event.is_set():
RunCheck ==
    /\ run_pc = "check"
    /\ run_pc' = IF shutdown_event THEN "refuse" ELSE "submit"
    /\ UNCHANGED <<num_workers, my_socket, shutdown_event, sd_pc, connection,
                   backlog, work_queue, worker, files>>
    /\ UNCHANGED conn_vars

\* RunSubmit with a rejection policy: a connection that arrives while every
\* worker is busy is closed instead of queued.
RunSubmit_RejectWhenSaturated ==
    /\ run_pc = "submit"
    /\ IF \A w \in 1..num_workers : worker[w] # NoConn
       THEN /\ sock_open' = [sock_open EXCEPT ![connection] = FALSE]
            /\ cstate' = [cstate EXCEPT ![connection] = "refused"]
            /\ UNCHANGED work_queue
       ELSE /\ work_queue' = Append(work_queue, connection)
            /\ cstate' = [cstate EXCEPT ![connection] = "queued"]
            /\ UNCHANGED sock_open
    /\ connection' = NoConn
    /\ run_pc' = "loop"
    /\ UNCHANGED <<num_workers, my_socket, shutdown_event, sd_pc, backlog, worker,
                   request, recvd, hasil_dict, sent, escaped, fp_calls, files>>

\* RunSubmit in a listener that closes its handle after handing it over
\* (submit inside "with connection:").
RunSubmit_ThenClose ==
    /\ run_pc = "submit"
    /\ work_queue' = Append(work_queue, connection)
    /\ cstate' = [cstate EXCEPT ![connection] = "queued"]
    /\ sock_open' = [sock_open EXCEPT ![connection] = FALSE]
    /\ connection' = NoConn
    /\ run_pc' = "loop"
    /\ UNCHANGED <<num_workers, my_socket, shutdown_event, sd_pc, backlog, worker,
                   request, recvd, hasil_dict, sent, escaped, fp_calls, files>>

\* self.executor.submit(process_client_request, connection, client_address)
RunSubmit ==
    /\ run_pc = "submit"
    /\ work_queue' = Append(work_queue, connection)
    /\ cstate' = [cstate EXCEPT ![connection] = "queued"]
    /\ connection' = NoConn
    /\ run_pc' = "loop"
    /\ UNCHANGED <<num_workers, my_socket, shutdown_event, sd_pc, backlog, worker,
                   request, recvd, hasil_dict, sock_open, sent, escaped, fp_calls,
                   files>>

\* connection.close() of a connection accepted during shutdown
RunRefuse ==
    /\ run_pc = "refuse"
    /\ sock_open' = [sock_open EXCEPT ![connection] = FALSE]
    /\ cstate' = [cstate EXCEPT ![connection] = "refused"]
    /\ connection' = NoConn
    /\ run_pc' = "loop"
    /\ UNCHANGED <<num_workers, my_socket, shutdown_event, sd_pc, backlog,
                   work_queue, worker, request, recvd, hasil_dict, sent, escaped,
                   fp_calls, files>>

\* A task is pending while it is queued or a worker runs it.
Pending == {c \in Conns : cstate[c] \in {"queued", "recv", "dispatch", "respond"}}

\* RunFinally with the close of the listening socket left out.
RunFinally_NoClose ==
    /\ run_pc = "finally"
    /\ run_pc' = "drain"
    /\ UNCHANGED <<num_workers, my_socket, shutdown_event, sd_pc, connection,
                   backlog, work_queue, worker, files>>
    /\ UNCHANGED <<request, cstate, recvd, hasil_dict, sock_open, sent, escaped,
                   fp_calls>>

\* finally: self.my_socket.close()
RunFinally ==
    /\ run_pc = "finally"
    /\ my_socket' = "closed"
    /\ cstate' = ResetBacklog(cstate)
    /\ backlog' = <<>>
    /\ run_pc' = "drain"
    /\ UNCHANGED <<num_workers, shutdown_event, sd_pc, connection, work_queue,
                   worker, request, recvd, hasil_dict, sock_open, sent, escaped,
                   fp_calls, files>>

\* RunExecutorShutdown as executor.shutdown(wait=False): no wait for the tasks.
RunExecutorShutdown_NoWait ==
    /\ run_pc = "drain"
    /\ run_pc' = "done"
    /\ UNCHANGED <<num_workers, my_socket, shutdown_event, sd_pc, connection,
                   backlog, work_queue, worker, files>>
    /\ UNCHANGED <<request, cstate, recvd, hasil_dict, sock_open, sent, escaped,
                   fp_calls>>

\* self.executor.shutdown(wait=True) returns when every submitted task has
\* run; then run() returns.
RunExecutorShutdown ==
    /\ run_pc = "drain"
    /\ Pending = {}
    /\ run_pc' = "done"
    /\ UNCHANGED <<num_workers, my_socket, shutdown_event, sd_pc, connection,
                   backlog, work_queue, worker, files>>
    /\ UNCHANGED conn_vars

(***************************************************************************)
(* ServerThreadPool.shutdown, called from the main thread.                 *)
(***************************************************************************)
\* self._shutdown_event.set()
SdSet ==
    /\ sd_pc = "idle"
    /\ shutdown_event' = TRUE
    /\ sd_pc' = "close"
    /\ UNCHANGED <<num_workers, my_socket, run_pc, connection, backlog, work_queue,
                   worker, files>>
    /\ UNCHANGED conn_vars

\* self.my_socket.shutdown(SHUT_RDWR), its OSError swallowed, and close()
SdClose ==
    /\ sd_pc = "close"
    /\ my_socket' = "closed"
    /\ cstate' = ResetBacklog(cstate)
    /\ backlog' = <<>>
    /\ sd_pc' = "join"
    /\ UNCHANGED <<num_workers, shutdown_event, run_pc, connection, work_queue,
                   worker, request, recvd, hasil_dict, sock_open, sent, escaped,
                   fp_calls, files>>

\* self.join()
SdJoin ==
    /\ sd_pc = "join"
    /\ run_pc = "done"
    /\ sd_pc' = "returned"
    /\ UNCHANGED <<num_workers, my_socket, shutdown_event, run_pc, connection,
                   backlog, work_queue, worker, files>>
    /\ UNCHANGED conn_vars

(***************************************************************************)
(* The executor's workers, each running process_client_request on one      *)
(* connection at a time.                                                   *)
(***************************************************************************)
Idle_(w) == worker[w] = NoConn

\* WorkerTake without the test that the worker is idle.
WorkerTake_NoIdleGuard(w) ==
    /\ w <= num_workers
    /\ work_queue # <<>>
    /\ worker' = [worker EXCEPT ![w] = Head(work_queue)]
    /\ work_queue' = Tail(work_queue)
    /\ cstate' = [cstate EXCEPT ![Head(work_queue)] = "recv"]
    /\ UNCHANGED <<num_workers, files, request, recvd, hasil_dict, sock_open, sent,
                   escaped, fp_calls>>
    /\ UNCHANGED <<my_socket, shutdown_event, run_pc, sd_pc, connection, backlog>>

\* A worker of the pool that has nothing to do takes the oldest queued task
\* and enters process_client_request: fp, the empty buffer, settimeout(120).
WorkerTake(w) ==
    /\ w <= num_workers
    /\ Idle_(w)
    /\ work_queue # <<>>
    /\ worker' = [worker EXCEPT ![w] = Head(work_queue)]
    /\ work_queue' = Tail(work_queue)
    /\ cstate' = [cstate EXCEPT ![Head(work_queue)] = "recv"]
    /\ UNCHANGED <<num_workers, files, request, recvd, hasil_dict, sock_open, sent,
                   escaped, fp_calls>>
    /\ UNCHANGED listener_vars

\* The task of connection c has ended: its worker is free again.
Release(c) == [w \in Workers |-> IF worker[w] = c THEN NoConn ELSE worker[w]]

\* Finally without the try around sendall: a failing send leaves the function
\* as an exception and the close is not reached.
Finally_SendFailureEscapes(c, hasil, send_ok) ==
    /\ cstate' = [cstate EXCEPT ![c] = "finished"]
    /\ hasil_dict' = [hasil_dict EXCEPT ![c] = hasil]
    /\ worker' = Release(c)
    /\ IF hasil = Unbound \/ ~send_ok
       THEN /\ escaped' = [escaped EXCEPT ![c] = TRUE]
            /\ UNCHANGED <<sent, sock_open>>
       ELSE /\ sent' = [sent EXCEPT ![c] = Append(@, [json |-> hasil, terminator |-> Delim])]
            /\ sock_open' = [sock_open EXCEPT ![c] = FALSE]
            /\ UNCHANGED escaped

\* Finally where an ERROR result is an exception still on its way out: no
\* handler has turned it into a response.
Finally_ErrorsEscape(c, hasil, send_ok) ==
    /\ cstate' = [cstate EXCEPT ![c] = "finished"]
    /\ hasil_dict' = [hasil_dict EXCEPT ![c] = hasil]
    /\ worker' = Release(c)
    /\ IF hasil = Unbound \/ hasil.status = "ERROR"
       THEN /\ escaped' = [escaped EXCEPT ![c] = TRUE]
            /\ UNCHANGED <<sent, sock_open>>
       ELSE /\ sent' = [sent EXCEPT ![c] =
                            IF send_ok
                            THEN Append(@, [json |-> hasil, terminator |-> Delim])
                            ELSE @]
            /\ sock_open' = [sock_open EXCEPT ![c] = FALSE]
            /\ UNCHANGED escaped

\* Finally with hasil_dict = {} assigned before the receive loop: the early
\* returns then write the empty object, which has no status field.
Finally_EmptyDictFirst(c, hasil, send_ok) ==
    /\ cstate' = [cstate EXCEPT ![c] = "finished"]
    /\ hasil_dict' = [hasil_dict EXCEPT ![c] = hasil]
    /\ worker' = Release(c)
    /\ sent' = [sent EXCEPT ![c] =
                    IF send_ok
                    THEN Append(@, [json |-> hasil, terminator |-> Delim])
                    ELSE @]
    /\ sock_open' = [sock_open EXCEPT ![c] = FALSE]
    /\ UNCHANGED escaped

\* Finally with connection.close() inside the try, after sendall: a failing
\* send is logged and the close is skipped.
Finally_CloseInTry(c, hasil, send_ok) ==
    /\ cstate' = [cstate EXCEPT ![c] = "finished"]
    /\ hasil_dict' = [hasil_dict EXCEPT ![c] = hasil]
    /\ worker' = Release(c)
    /\ IF hasil = Unbound
       THEN /\ escaped' = [escaped EXCEPT ![c] = TRUE]
            /\ UNCHANGED <<sent, sock_open>>
       ELSE /\ sent' = [sent EXCEPT ![c] =
                            IF send_ok
                            THEN Append(@, [json |-> hasil, terminator |-> Delim])
                            ELSE @]
            /\ sock_open' = [sock_open EXCEPT ![c] = ~send_ok]
            /\ UNCHANGED escaped

\* The outer finally block, entered with hasil_dict = hasil: json.dumps of a
\* hasil_dict that was never assigned raises UnboundLocalError before
\* sendall and close are reached; otherwise the response is written (a
\* failure of sendall is logged and dropped) and the connection closed.
Finally(c, hasil, send_ok) ==
    /\ cstate' = [cstate EXCEPT ![c] = "finished"]
    /\ hasil_dict' = [hasil_dict EXCEPT ![c] = hasil]
    /\ worker' = Release(c)
    /\ IF hasil = Unbound
       THEN /\ escaped' = [escaped EXCEPT ![c] = TRUE]
            /\ UNCHANGED <<sent, sock_open>>
       ELSE /\ sent' = [sent EXCEPT ![c] =
                            IF send_ok
                            THEN Append(@, [json |-> hasil, terminator |-> Delim])
                            ELSE @]
            /\ sock_open' = [sock_open EXCEPT ![c] = FALSE]
            /\ UNCHANGED escaped

\* sendall can fail only when the client has closed its side or is gone.
SendOutcomes(c) == IF ClientEnd(c) \in {"close", "drop"} THEN BOOLEAN ELSE {TRUE}

\* RecvData that looks for the delimiter in the chunk just received, not in
\* the buffer: a delimiter cut by a chunk boundary is not seen.
RecvData_SearchNewData(c) ==
    /\ cstate[c] = "recv"
    /\ \E k \in 1..Min(RecvBufSize, Len(Stream(c)) - recvd[c]) :
       \E data \in {SubSeq(Stream(c), recvd[c] + 1, recvd[c] + k)} :
       \E buf \in {SubSeq(Stream(c), 1, recvd[c] + k)} :
        /\ recvd' = [recvd EXCEPT ![c] = recvd[c] + k]
        /\ IF ~Framed(data) THEN
                UNCHANGED <<cstate, hasil_dict, worker, sent, sock_open, escaped>>
           ELSE IF ~Utf8Ok(HeaderBytes(buf)) THEN
                /\ cstate' = [cstate EXCEPT ![c] = "respond"]
                /\ hasil_dict' = [hasil_dict EXCEPT ![c] =
                                    Resp("ERROR", "Server internal error")]
                /\ UNCHANGED <<worker, sent, sock_open, escaped>>
           ELSE IF Decode(HeaderBytes(buf)) = <<>> THEN
                \E send_ok \in SendOutcomes(c) : Finally(c, hasil_dict[c], send_ok)
           ELSE /\ cstate' = [cstate EXCEPT ![c] = "dispatch"]
                /\ UNCHANGED <<hasil_dict, worker, sent, sock_open, escaped>>
    /\ UNCHANGED <<num_workers, work_queue, request, fp_calls, files>>
    /\ UNCHANGED listener_vars

\* One connection.recv(65536) that returns data; then the test for the
\* delimiter, the decoding of the header and the test for an empty header.
RecvData(c) ==
    /\ cstate[c] = "recv"
    /\ \E k \in 1..Min(RecvBufSize, Len(Stream(c)) - recvd[c]) :
       \E buf \in {SubSeq(Stream(c), 1, recvd[c] + k)} :
        /\ recvd' = [recvd EXCEPT ![c] = recvd[c] + k]
        /\ IF ~Framed(buf) THEN
                UNCHANGED <<cstate, hasil_dict, worker, sent, sock_open, escaped>>
           ELSE IF ~Utf8Ok(HeaderBytes(buf)) THEN
                /\ cstate' = [cstate EXCEPT ![c] = "respond"]
                /\ hasil_dict' = [hasil_dict EXCEPT ![c] =
                                    Resp("ERROR", "Server internal error")]
                /\ UNCHANGED <<worker, sent, sock_open, escaped>>
           ELSE IF Decode(HeaderBytes(buf)) = <<>> THEN
                \E send_ok \in SendOutcomes(c) : Finally(c, hasil_dict[c], send_ok)
           ELSE /\ cstate' = [cstate EXCEPT ![c] = "dispatch"]
                /\ UNCHANGED <<hasil_dict, worker, sent, sock_open, escaped>>
    /\ UNCHANGED <<num_workers, work_queue, request, fp_calls, files>>
    /\ UNCHANGED listener_vars

\* RecvEof with hasil_dict assigned before the loop: the early return then
\* answers like any other path.
RecvEof_Answered(c) ==
    /\ cstate[c] = "recv"
    /\ recvd[c] = Len(Stream(c))
    /\ ClientEnd(c) = "close"
    /\ \E send_ok \in SendOutcomes(c) :
            Finally(c, Resp("ERROR", "No request received."), send_ok)
    /\ UNCHANGED <<num_workers, work_queue, request, recvd, fp_calls, files>>
    /\ UNCHANGED listener_vars

\* recv returns b"": the client has closed before the delimiter; return.
RecvEof(c) ==
    /\ cstate[c] = "recv"
    /\ recvd[c] = Len(Stream(c))
    /\ ClientEnd(c) = "close"
    /\ \E send_ok \in SendOutcomes(c) : Finally(c, hasil_dict[c], send_ok)
    /\ UNCHANGED <<num_workers, work_queue, request, recvd, fp_calls, files>>
    /\ UNCHANGED listener_vars

\* RecvTimeout without connection.settimeout(120): recv blocks for ever.
RecvTimeout_Never(c) ==
    /\ FALSE
    /\ UNCHANGED vars

\* RecvTimeout as a silent close: the connection is dropped unanswered.
RecvTimeout_Silent(c) ==
    /\ cstate[c] = "recv"
    /\ recvd[c] = Len(Stream(c))
    /\ ClientEnd(c) \in {"wait", "drop"}
    /\ cstate' = [cstate EXCEPT ![c] = "finished"]
    /\ sock_open' = [sock_open EXCEPT ![c] = FALSE]
    /\ worker' = Release(c)
    /\ UNCHANGED <<num_workers, work_queue, request, recvd, hasil_dict, sent,
                   escaped, fp_calls, files>>
    /\ UNCHANGED listener_vars

\* recv raises socket.timeout: the client has been idle for 120 seconds.
RecvTimeout(c) ==
    /\ cstate[c] = "recv"
    /\ recvd[c] = Len(Stream(c))
    /\ ClientEnd(c) \in {"wait", "drop"}
    /\ cstate' = [cstate EXCEPT ![c] = "respond"]
    /\ hasil_dict' = [hasil_dict EXCEPT ![c] = Resp("ERROR", "Server receive timeout.")]
    /\ UNCHANGED <<num_workers, work_queue, worker, request, recvd, sock_open, sent,
                   escaped, fp_calls, files>>
    /\ UNCHANGED listener_vars

\* Dispatch that writes the response as soon as the result is known, and
\* leaves the state for the finally block.
Dispatch_AnswerFirst(c) ==
    /\ cstate[c] = "dispatch"
    /\ \E io_ok \in BOOLEAN :
       \E header_str \in {Decode(HeaderBytes(full_data_buffer(c)))} :
       \E body \in {FileBodyBytes(full_data_buffer(c))} :
       \E r \in {Execute(files, header_str, body, io_ok)} :
        /\ hasil_dict' = [hasil_dict EXCEPT ![c] = r.hasil]
        /\ files' = r.store
        /\ fp_calls' = [fp_calls EXCEPT ![c] = r.calls]
        /\ sent' = [sent EXCEPT ![c] = Append(@, [json |-> r.hasil, terminator |-> Delim])]
    /\ cstate' = [cstate EXCEPT ![c] = "respond"]
    /\ UNCHANGED <<num_workers, work_queue, worker, request, recvd, sock_open, escaped>>
    /\ UNCHANGED listener_vars

\* Dispatch on a persistent connection: when the bytes after the delimiter
\* frame another request, that one is carried out as well.
Dispatch_Persistent(c) ==
    /\ cstate[c] = "dispatch"
    /\ \E io_ok \in BOOLEAN :
       \E header_str \in {Decode(HeaderBytes(full_data_buffer(c)))} :
       \E body \in {FileBodyBytes(full_data_buffer(c))} :
       \E r \in {Execute(files, header_str, body, io_ok)} :
       \E q \in {IF Framed(body) /\ Utf8Ok(HeaderBytes(body))
                 THEN Execute(r.store, Decode(HeaderBytes(body)), FileBodyBytes(body), io_ok)
                 ELSE [hasil |-> r.hasil, store |-> r.store, calls |-> <<>>]} :
        /\ hasil_dict' = [hasil_dict EXCEPT ![c] = q.hasil]
        /\ files' = q.store
        /\ fp_calls' = [fp_calls EXCEPT ![c] = r.calls \o q.calls]
    /\ cstate' = [cstate EXCEPT ![c] = "respond"]
    /\ UNCHANGED <<num_workers, work_queue, worker, request, recvd, sock_open, sent,
                   escaped>>
    /\ UNCHANGED listener_vars

\* The header is split, the command uppercased and carried out; the file
\* store works (io_ok) or raises.
Dispatch(c) ==
    /\ cstate[c] = "dispatch"
    /\ \E io_ok \in BOOLEAN :
       \E header_str \in {Decode(HeaderBytes(full_data_buffer(c)))} :
       \E body \in {FileBodyBytes(full_data_buffer(c))} :
       \E r \in {Execute(files, header_str, body, io_ok)} :
        /\ hasil_dict' = [hasil_dict EXCEPT ![c] = r.hasil]
        /\ files' = r.store
        /\ fp_calls' = [fp_calls EXCEPT ![c] = r.calls]
    /\ cstate' = [cstate EXCEPT ![c] = "respond"]
    /\ UNCHANGED <<num_workers, work_queue, worker, request, recvd, sock_open, sent,
                   escaped>>
    /\ UNCHANGED listener_vars

\* The finally block after a command, a timeout or a caught exception.
Respond(c) ==
    /\ cstate[c] = "respond"
    /\ \E send_ok \in SendOutcomes(c) : Finally(c, hasil_dict[c], send_ok)
    /\ UNCHANGED <<num_workers, work_queue, request, recvd, fp_calls, files>>
    /\ UNCHANGED listener_vars

(***************************************************************************)
(* The system.                                                             *)
(***************************************************************************)
Listener ==
    \/ RunBind \/ RunLoopTest \/ RunAccept \/ RunAcceptTimeout \/ RunAcceptError
    \/ RunCheck \/ RunSubmit \/ RunRefuse \/ RunFinally \/ RunExecutorShutdown

Shutdown == SdSet \/ SdClose \/ SdJoin

Handler(c) ==
    \/ RecvData(c) \/ RecvEof(c) \/ RecvTimeout(c) \/ Dispatch(c) \/ Respond(c)

NextWith(menu) ==
    \/ \E r \in menu : ClientConnect(r)
    \/ Listener
    \/ Shutdown
    \/ \E w \in Workers : WorkerTake(w)
    \/ \E c \in Conns : Handler(c)

Next == NextWith(PoolMenu)

Spec == Init /\ [][Next]_vars

\* The clients of the liveness check: one that sends its delimiter, one that
\* closes, one that goes idle.
LiveMenu == {"GetA", "Silent", "Idle"}
NextLive == NextWith(LiveMenu)

\* The steps of the server's own threads: the listener, the thread inside
\* shutdown() once the flag is set, and the pool's workers.
Progress ==
    \/ Listener
    \/ SdClose \/ SdJoin
    \/ \E w \in Workers : WorkerTake(w)
    \/ \E c \in Conns : Handler(c)

\* The scheduler runs a thread that can take a step: the server does not
\* stop while one of its threads is able to go on.
Fairness == WF_vars(Progress)

FairSpec == Init /\ [][NextLive]_vars /\ Fairness

\* The clients of the check of failing commands: an upload that cannot be
\* decoded, a download, and the two that end a task without a request.
FailMenu == {"UploadBad", "GetA", "Silent", "Idle"}
NextFail == NextWith(FailMenu)
FailSpec == Init /\ [][NextFail]_vars

\* The clients of the check of one filename used by several connections:
\* two uploads of different content, a download, and the two that end a task
\* without a request.
RaceMenu == {"UploadA", "UploadA2", "GetA", "Silent", "Idle"}
NextRace == NextWith(RaceMenu)
RaceSpec == Init /\ [][NextRace]_vars

(***************************************************************************)
(* One connection in process_client_request: the listener has accepted and *)
(* submitted it and the first worker has taken it; it is tried with every  *)
(* request of HandlerInputs, on an empty store and on one that holds a     *)
(* file of the name the requests use.                                      *)
(***************************************************************************)
Stores == {EmptyStore, Write(EmptyStore, NameA, ContentB)}

HandlerInit ==
    /\ num_workers \in 1..MaxWorkers
    /\ my_socket = "listening"
    /\ shutdown_event = FALSE
    /\ run_pc = "loop"
    /\ sd_pc = "idle"
    /\ connection = NoConn
    /\ backlog = <<>>
    /\ work_queue = <<>>
    /\ worker = [w \in Workers |-> IF w = 1 THEN 1 ELSE NoConn]
    /\ request \in {[c \in Conns |-> IF c = 1 THEN r ELSE NoRequest] : r \in HandlerInputs}
    /\ cstate = [c \in Conns |-> IF c = 1 THEN "recv" ELSE "none"]
    /\ recvd = [c \in Conns |-> 0]
    /\ hasil_dict = [c \in Conns |-> Unbound]
    /\ sock_open = [c \in Conns |-> c = 1]
    /\ sent = [c \in Conns |-> <<>>]
    /\ escaped = [c \in Conns |-> FALSE]
    /\ fp_calls = [c \in Conns |-> <<>>]
    /\ files \in Stores

HandlerNext == \E c \in Conns : Handler(c)

HandlerSpec == HandlerInit /\ [][HandlerNext]_vars

(***************************************************************************)
(* The same UPLOAD issued on two successive connections: one worker, the   *)
(* first connection in its hands and the second waiting in the executor's  *)
(* queue until the first has been answered and closed.                     *)
(***************************************************************************)
Repeated == {UploadA, UploadLong}

TwiceInit ==
    /\ num_workers = 1
    /\ my_socket = "listening"
    /\ shutdown_event = FALSE
    /\ run_pc = "loop"
    /\ sd_pc = "idle"
    /\ connection = NoConn
    /\ backlog = <<>>
    /\ work_queue = <<2>>
    /\ worker = [w \in Workers |-> IF w = 1 THEN 1 ELSE NoConn]
    /\ request \in {[c \in Conns |-> r] : r \in Repeated}
    /\ cstate = [c \in Conns |-> IF c = 1 THEN "recv" ELSE "queued"]
    /\ recvd = [c \in Conns |-> 0]
    /\ hasil_dict = [c \in Conns |-> Unbound]
    /\ sock_open = [c \in Conns |-> TRUE]
    /\ sent = [c \in Conns |-> <<>>]
    /\ escaped = [c \in Conns |-> FALSE]
    /\ fp_calls = [c \in Conns |-> <<>>]
    /\ files \in Stores

TwiceNext ==
    \/ \E w \in Workers : WorkerTake(w)
    \/ \E c \in Conns : RecvData(c) \/ Dispatch(c) \/ Respond(c)

TwiceSpec == TwiceInit /\ [][TwiceNext]_vars

(***************************************************************************)
(* The stress client's reading of a response to GET.  A response is the    *)
(* JSON object and the bytes the server writes after it.                   *)
(***************************************************************************)
\* full_response_buffer.split(b"\r\n\r\n", 1)[1]: what follows the first
\* delimiter after the JSON, nothing when there is no delimiter
response_body(reply) ==
    IF Find(reply.terminator) = 0 THEN <<>>
    ELSE SubSeq(reply.terminator, Find(reply.terminator) + 4, Len(reply.terminator))

\* response_dict['data'] for a GET answered OK: the decoded body, not the
\* data_file field of the JSON
response_data(reply) == Decode(response_body(reply))

\* client_task, DOWNLOAD: success when status is OK and the data decodes
DownloadSuccess(reply) == reply.json.status = "OK" /\ B64Valid(response_data(reply))
\* the bytes written to the download directory and counted
decoded_content(reply) == B64Decode(response_data(reply))

(***************************************************************************)
(* Properties.                                                             *)
(***************************************************************************)
Finished(c) == cstate[c] = "finished"
Processing == {c \in Conns : cstate[c] \in {"recv", "dispatch", "respond"}}
Uploads == {UploadA, UploadB}
UploadName(r) == IF r = UploadA THEN NameA ELSE NameB
UploadContent(r) == IF r = UploadA THEN ContentA ELSE ContentB
\* The bytes the client wrote after the first delimiter of its stream.
StreamBody(r) == FileBodyBytes(r.stream)

\* C1: every connection handed to a worker is closed by that worker when its
\* request/response cycle ends, on every path through process_client_request
\* (response, command error, timeout, EOF before the delimiter, empty header).
C1_ClosedWhenTaskEnds ==
    \A c \in Conns : Finished(c) => ~sock_open[c]

\* C2: no exception escapes process_client_request on any path; every error
\* ends in an ERROR response or a silent close.
C2_NoExceptionEscapes ==
    \A c \in Conns : Finished(c) => /\ ~escaped[c]
                                    /\ ~sock_open[c]

\* C3: for every split of the stream into recv() chunks, an UPLOAD f framed as
\* header, delimiter, base64(c) hands the whole payload base64(c) to the file
\* store, so that a later GET f returns data that decodes to c.
C3_WholePayloadStored ==
    /\ \A c \in Conns : \A i \in 1..Len(fp_calls[c]) :
            (request[c] \in Uploads /\ fp_calls[c][i].op = "upload")
                => fp_calls[c][i].text = Decode(StreamBody(request[c]))
    /\ \A g \in Conns :
            (request[g] = GetA /\ sent[g] # <<>> /\ sent[g][1].json.status = "OK")
                => /\ B64Valid(sent[g][1].json.data_file)
                   /\ B64Decode(sent[g][1].json.data_file) = ContentA

\* C4: clients uploading files with pairwise distinct names at the same time
\* are all answered OK (the file store working), and afterwards each name
\* holds the content its own client sent.
StorageFailed(c) == hasil_dict[c].data = "Server internal error during UPLOAD"
C4_ConcurrentUploadsSucceed ==
    \A c \in Conns :
        (Finished(c) /\ request[c] \in Uploads /\ ~StorageFailed(c))
            => /\ Len(sent[c]) = 1
               /\ sent[c][1].json.status = "OK"
               /\ UploadName(request[c]) \in DOMAIN files
               /\ files[UploadName(request[c])] = UploadContent(request[c])

\* C5 (as the claim states it): the listening socket is never closed while a
\* submitted task is still queued or running.
C5_SocketOpenWhilePending ==
    my_socket = "closed" => Pending = {}

\* C5 (amended): the listening socket is closed first, then the executor is
\* drained: run() waits for the tasks only with the socket closed, and it
\* returns only when no task is queued or running.
C5_CloseThenDrain ==
    /\ run_pc \in {"drain", "done"} => my_socket = "closed"
    /\ run_pc = "done" => Pending = {}

\* The listening socket is closed and run() waits for a task still pending.
C5_Witness ==
    /\ run_pc = "drain"
    /\ my_socket = "closed"
    /\ Pending # {}

\* C6: once the shutdown flag is set no connection is submitted to the pool,
\* in every interleaving of shutdown() with the accept loop.
C6_NoSubmitAfterFlag ==
    [][shutdown_event => Len(work_queue') <= Len(work_queue)]_vars

\* C7: when run() has returned, the listening socket is closed and every
\* connection ever submitted has run to its end; nothing is left queued.
C7_StoppedMeansDrained ==
    run_pc = "done" =>
        /\ my_socket = "closed"
        /\ work_queue = <<>>
        /\ \A w \in Workers : worker[w] = NoConn
        /\ \A c \in Conns : cstate[c] \in {"none", "reset", "refused", "finished"}

\* run() has returned after a shutdown with one worker and every connection
\* of the model submitted and finished: one of them waited in the queue.
C7_Witness ==
    /\ run_pc = "done"
    /\ shutdown_event
    /\ num_workers = 1
    /\ \A c \in Conns : Finished(c)

\* C8: after shutdown() is called the accept loop exits and the server
\* reaches Stopped: run() returns and shutdown() returns from join.
C8_ShutdownTerminates ==
    (sd_pc # "idle") ~> (run_pc = "done" /\ sd_pc = "returned")

\* shutdown() has returned and a client that went idle was answered.
C8_Witness ==
    /\ sd_pc = "returned"
    /\ run_pc = "done"
    /\ \E c \in Conns : Finished(c) /\ request[c] = Idle

\* C9: at most num_workers connections are inside process_client_request,
\* and each of them has exactly one worker, which has no other connection.
C9_AtMostNProcessing ==
    /\ Cardinality(Processing) <= num_workers
    /\ \A c \in Processing :
            Cardinality({w \in Workers : worker[w] = c /\ w <= num_workers}) = 1
    /\ \A w \in Workers : worker[w] # NoConn => worker[w] \in Processing

\* Every worker of a pool of two is busy.
C9_Witness ==
    /\ num_workers = MaxWorkers
    /\ Cardinality(Processing) = num_workers

AllBusy == \A w \in 1..num_workers : worker[w] # NoConn

\* C10 (as the claim states it): while all workers are busy no accepted
\* connection is held in a server-side queue.
C10_NoServerSideQueue ==
    AllBusy => work_queue = <<>>

Range(q) == {q[i] : i \in 1..Len(q)}

\* C10 (amended): the listener accepts and submits whatever the workers do;
\* a submitted connection waits in the executor's queue, accepted and open,
\* until a worker takes it, and the listener closes a connection itself only
\* during shutdown.
C10_AcceptedHeldInQueue ==
    /\ \A c \in Conns : cstate[c] = "queued" <=> c \in Range(work_queue)
    /\ \A c \in Range(work_queue) : sock_open[c] /\ c \notin Range(backlog)
    /\ \A c \in Conns : cstate[c] = "refused" => shutdown_event

\* Every worker is busy and an accepted connection waits in the queue.
C10_Witness ==
    /\ AllBusy
    /\ work_queue # <<>>
    /\ ~shutdown_event

\* What the server writes for a response: the JSON text and the terminator.
Reply(h) == [json |-> h, terminator |-> Delim]

\* The client of c has sent a command header, never sends the delimiter and
\* stays connected and idle.
IdleUntilTimeout(c) ==
    /\ ClientEnd(c) = "wait"
    /\ Stream(c) # <<>>
    /\ ~Framed(Stream(c))

\* C11 (as the claim states it): a client that sends a header without the
\* delimiter and stays idle until the read timeout has its connection closed
\* without any response written.
C11_IdleClosedUnanswered ==
    \A c \in Conns :
        (Finished(c) /\ IdleUntilTimeout(c)) => (~sock_open[c] /\ sent[c] = <<>>)

\* C11 (amended): such a client is sent one ERROR response, "Server receive
\* timeout.", and then its connection is closed; no file-store operation is
\* invoked.
C11_IdleAnsweredTimeout ==
    \A c \in Conns :
        (Finished(c) /\ IdleUntilTimeout(c))
            => /\ ~sock_open[c]
               /\ sent[c] = <<Reply(Resp("ERROR", "Server receive timeout."))>>
               /\ fp_calls[c] = <<>>

\* An idle client's connection has ended and it was written to.
C11_Witness ==
    \E c \in Conns : Finished(c) /\ IdleUntilTimeout(c) /\ sent[c] # <<>> /\ ~sock_open[c]

\* The receive loop of c times out: the client never sends the delimiter and
\* does not close.
TimesOut(c) ==
    /\ ClientEnd(c) \in {"wait", "drop"}
    /\ ~Framed(Stream(c))

\* C12: after a receive timeout the handler attempts one ERROR response; a
\* failing send is swallowed and the connection dropped. Either way the
\* connection is closed and no file-store operation has been invoked.
C12_TimeoutAnsweredOrDropped ==
    \A c \in Conns :
        (Finished(c) /\ TimesOut(c))
            => /\ ~sock_open[c]
               /\ ~escaped[c]
               /\ fp_calls[c] = <<>>
               /\ sent[c] \in {<<>>, <<Reply(Resp("ERROR", "Server receive timeout."))>>}
               /\ ClientEnd(c) = "wait" => sent[c] # <<>>

\* A timed-out connection was dropped: the send failed and it was closed.
C12_Witness ==
    \E c \in Conns : Finished(c) /\ TimesOut(c) /\ sent[c] = <<>> /\ ~sock_open[c]

\* The client of c closes its side before a delimiter has been sent, or the
\* header in front of the delimiter is empty.
Abandoned(c) ==
    \/ ClientEnd(c) = "close" /\ ~Framed(Stream(c))
    \/ Framed(Stream(c)) /\ HeaderBytes(Stream(c)) = <<>>

\* C13: when the client closes before a delimiter has been received (also
\* when it sent nothing), or the header is empty, the server writes no
\* response to the connection and invokes no file-store operation.
C13_AbandonedUnanswered ==
    \A c \in Conns :
        (cstate[c] # "none" /\ Abandoned(c)) => (sent[c] = <<>> /\ fp_calls[c] = <<>>)

\* The task of a client that sent part of a header and closed has ended.
C13_Witness ==
    \E c \in Conns :
        /\ Finished(c)
        /\ ClientEnd(c) = "close"
        /\ Stream(c) # <<>>
        /\ ~Framed(Stream(c))
        /\ sent[c] = <<>>

\* The file-store operation a request of the four commands asks for.
ExpectedOp(r) ==
    IF r \in ListRequests THEN "list"
    ELSE IF r \in GetRequests THEN "get"
    ELSE IF r \in DeleteRequests THEN "delete"
    ELSE "upload"

\* Its arguments: the filename, none for LIST.
ExpectedParams(r) == IF r \in ListRequests THEN <<>> ELSE <<NameA>>

CommandRequests == ListRequests \cup GetRequests \cup DeleteRequests \cup UploadRequests

\* C14: for every casing of LIST, GET, UPLOAD and DELETE the request is
\* dispatched to the corresponding file-store operation and to no other, with
\* the filename taken from the first argument.
C14_CasingDispatch ==
    \A c \in Conns :
        /\ (cstate[c] \in {"respond", "finished"} /\ request[c] \in CommandRequests)
            => /\ Len(fp_calls[c]) = 1
               /\ fp_calls[c][1].op = ExpectedOp(request[c])
               /\ fp_calls[c][1].params = ExpectedParams(request[c])
        /\ (cstate[c] \in {"respond", "finished"} /\ request[c] \in TwoArgRequests)
            => /\ Len(fp_calls[c]) = 1
               /\ fp_calls[c][1].params[1] = NameA

\* An upload written in lower case has been dispatched to upload.
C14_Witness ==
    \E c \in Conns :
        /\ Finished(c)
        /\ request[c] \in UploadRequests
        /\ SubSeq(Stream(c), 1, 6) = <<"u", "p", "l", "o", "a", "d">>
        /\ fp_calls[c] # <<>>
        /\ fp_calls[c][1].op = "upload"

\* The uppercased command word of a request of UnknownRequests.
ExpectedWord(r) ==
    (CHOOSE u \in UnknownWords :
        r \in {Framing(u[1], <<>>, "wait"),
                Framing(u[1] \o <<SP>> \o NameA, B64Encode(ContentA), "wait")})[2]

\* The response to a word X that is no command: ERROR, "Unknown command: X".
UnknownReply(r) == [Resp("ERROR", "Unknown command") EXCEPT !.arg = ExpectedWord(r)]

\* C15: a request whose command word is none of LIST, GET, UPLOAD, DELETE is
\* answered ERROR "Unknown command: X", X the uppercased word; no file-store
\* operation is invoked and the store is left unchanged.
C15_UnknownCommand ==
    [][\A c \in Conns :
        (request[c] \in UnknownRequests /\ cstate[c] \in {"dispatch", "respond"})
            => /\ files' = files
               /\ fp_calls'[c] = <<>>
               /\ hasil_dict'[c] = UnknownReply(request[c])
               /\ cstate'[c] = "finished" => sent'[c] = <<Reply(UnknownReply(request[c]))>>
      ]_vars

\* A word that is no command, written in lower case, has been answered.
C15_Witness ==
    \E c \in Conns :
        /\ Finished(c)
        /\ request[c] \in UnknownRequests
        /\ sent[c] # <<>>
        /\ sent[c][1].json.arg = <<"P", "U", "T">>

\* C16: an UPLOAD without a filename argument is answered with status ERROR
\* and nothing is written to the file store, whatever the body contains.
C16_NamelessUploadRejected ==
    [][\A c \in Conns :
        (request[c] \in NamelessUploads /\ cstate[c] \in {"dispatch", "respond"})
            => /\ files' = files
               /\ fp_calls'[c] = <<>>
               /\ hasil_dict'[c].status = "ERROR"
               /\ cstate'[c] = "finished"
                    => (Len(sent'[c]) = 1 /\ sent'[c][1].json.status = "ERROR")
      ]_vars

\* An UPLOAD without a name whose base64 body had arrived whole when the
\* request was framed has been answered.
C16_Witness ==
    \E c \in Conns :
        /\ Finished(c)
        /\ request[c] = Framing(CmdUPLOAD, B64Encode(ContentA), "wait")
        /\ recvd[c] = Len(Stream(c))
        /\ sent[c] # <<>>
        /\ sent[c][1].json.status = "ERROR"

\* The body c's handler holds is not UTF-8.
BodyUndecodable(c) == ~Utf8Ok(FileBodyBytes(full_data_buffer(c)))

\* What the except handlers of the command's execution answer.
ExecFailures ==
    {Resp("ERROR", "Failed to decode file content."),
     Resp("ERROR", "Server internal error during UPLOAD"),
     Resp("ERROR", "Server internal error")}

\* C17: when executing a command fails (an UPLOAD body that is not UTF-8, a
\* file-store operation that raises) the client, still connected, receives
\* exactly one response with status ERROR, the connection is closed and the
\* worker is free again.
C17_FailureAnswered ==
    \A c \in Conns :
        /\ (cstate[c] \in {"respond", "finished"} /\ request[c] = UploadBad
                /\ BodyUndecodable(c))
            => /\ hasil_dict[c] = Resp("ERROR", "Failed to decode file content.")
               /\ fp_calls[c] = <<>>
        /\ (Finished(c) /\ hasil_dict[c] \in ExecFailures /\ ClientEnd(c) = "wait")
            => /\ sent[c] = <<Reply(hasil_dict[c])>>
               /\ ~sock_open[c]
               /\ ~escaped[c]
               /\ \A w \in Workers : worker[w] # c

\* The only worker has answered an upload it could not decode and a download
\* for which the file store raised: it served a connection after a failure.
C17_Witness ==
    /\ num_workers = 1
    /\ \E c, d \in Conns :
        /\ Finished(c) /\ Finished(d)
        /\ hasil_dict[c] = Resp("ERROR", "Failed to decode file content.")
        /\ hasil_dict[d] = Resp("ERROR", "Server internal error")
        /\ sent[c] # <<>> /\ sent[d] # <<>>

\* The step writes to connection c.
Writes(c) == sent'[c] # sent[c]

\* The file-store operation of c's request has returned and its effect is in
\* the store.
OperationDone(c) ==
    /\ Len(fp_calls[c]) = 1
    /\ request[c] \in UploadRequests => NameA \in DOMAIN files
    /\ request[c] \in DeleteRequests => NameA \notin DOMAIN files

\* C18 (as the claim states it): a response with status OK is written only
\* after the file-store operation of the request has returned, and no byte of
\* a response is written before the request has been framed.
C18_FramedThenDoneThenWritten ==
    [][\A c \in Conns :
        Writes(c) => /\ Framed(full_data_buffer(c))
                     /\ sent'[c][1].json.status = "OK" => OperationDone(c)
      ]_vars

\* C18 (amended): a response with status OK is written only after the
\* file-store operation of the request has returned, and the only response
\* written before the request has been framed is the ERROR response to a
\* receive timeout.
C18_OnlyTimeoutBeforeFraming ==
    [][\A c \in Conns :
        Writes(c) => /\ cstate[c] = "respond"
                     /\ Len(sent'[c]) = 1
                     /\ \/ Framed(full_data_buffer(c))
                        \/ sent'[c][1].json = Resp("ERROR", "Server receive timeout.")
                     /\ sent'[c][1].json.status = "OK" => OperationDone(c)
      ]_vars

\* An upload has been answered OK and the file is in the store.
C18_Witness ==
    \E c \in Conns :
        /\ Finished(c)
        /\ request[c] \in UploadRequests
        /\ sent[c] # <<>>
        /\ sent[c][1].json.status = "OK"
        /\ NameA \in DOMAIN files

\* C19: outside of shutdown only a failure to bind stops the listener: a
\* failing accept() does not end the accept loop.
C19_AcceptFailureSurvived ==
    [][(run_pc = "accept" /\ ~shutdown_event) => run_pc' \in {"accept", "loop", "check"}]_vars

\* The contents the clients of RaceSpec upload under the one name.
Uploaded == {ContentA, ContentB}

\* C20: with UPLOADs and GETs of one filename handled by different workers
\* at the same time, a GET returns the whole content of one of the uploads
\* (or finds no file), never part of one, and the file holds exactly the
\* content of one of the uploads.
C20_WholeContentOnly ==
    /\ NameA \in DOMAIN files => files[NameA] \in Uploaded
    /\ \A g \in Conns :
            (request[g] = GetA /\ sent[g] # <<>> /\ sent[g][1].json.status = "OK")
                => /\ sent[g][1].json.data_namafile = NameA
                   /\ B64Valid(sent[g][1].json.data_file)
                   /\ B64Decode(sent[g][1].json.data_file) \in Uploaded

\* The operation the first of two pipelined requests asks for.
FirstOp(first) ==
    IF Command(Decode(HeaderBytes(first.stream))) = CmdLIST THEN "list"
    ELSE IF Command(Decode(HeaderBytes(first.stream))) = CmdGET THEN "get"
    ELSE "delete"

\* C21: at most one file-store operation is invoked per connection; the
\* bytes that follow the first framed request (a second pipelined command)
\* are never carried out: the one operation invoked is that of the first
\* request, a pipelined UPLOAD creates no file and a pipelined DELETE
\* after a LIST or GET removes none.
C21_OneOperationPerConnection ==
    \A c \in Conns :
        /\ Len(fp_calls[c]) <= 1
        /\ \A f \in Firsts : \A s \in Seconds :
            (request[c] = Pipeline(f, s) /\ cstate[c] \in {"respond", "finished"})
                => /\ Len(fp_calls[c]) = 1
                   /\ fp_calls[c][1].op = FirstOp(f)
                   /\ NameB \notin DOMAIN files
                   /\ FirstOp(f) # "delete" => files \in Stores

\* A LIST followed by a DELETE has been received whole, the second request
\* included, and answered after the one LIST, with the file still there.
C21_Witness ==
    \E c \in Conns : \E s \in Seconds :
        /\ Finished(c)
        /\ request[c] = Pipeline(Framing(CmdLIST, <<>>, "wait"), s)
        /\ recvd[c] = Len(Stream(c))
        /\ Len(fp_calls[c]) = 1
        /\ Len(sent[c]) = 1
        /\ NameA \in DOMAIN files

\* C22: at most one response is written per connection, and every response
\* written is a JSON object whose status field is OK or ERROR, followed by
\* the terminator \r\n\r\n.
C22_OneWellFormedResponse ==
    \A c \in Conns :
        /\ Len(sent[c]) <= 1
        /\ \A i \in 1..Len(sent[c]) :
            /\ sent[c][i].json.status \in {"OK", "ERROR"}
            /\ sent[c][i].terminator = <<CR, LF, CR, LF>>

\* A connection has ended with one response of status OK written.
C22_Witness ==
    \E c \in Conns :
        /\ Finished(c)
        /\ Len(sent[c]) = 1
        /\ sent[c][1].json.status = "OK"
        /\ ~sock_open[c]

\* C23: issuing the identical UPLOAD request on two successive connections
\* leaves the file store as issuing it once does, however the bytes of each
\* request are split into recv() chunks: once the first request has been
\* answered OK, carrying out the second with an OK result changes nothing.
C23_UploadIdempotent ==
    [][(Finished(1) /\ sent[1] # <<>> /\ sent[1][1].json.status = "OK"
            /\ cstate[2] = "dispatch" /\ cstate'[2] = "respond"
            /\ hasil_dict'[2].status = "OK")
        => files' = files]_vars

\* C24: the base64 payload the CLI client sends inline in the header line
\* (UPLOAD name payload, then the delimiter) is what the server hands to the
\* file store, and once the upload is answered OK the store holds the local
\* file's content under that name.
C24_InlinePayloadStored ==
    \A c \in Conns :
        (request[c] = CliUpload /\ cstate[c] \in {"respond", "finished"})
            => /\ \A i \in 1..Len(fp_calls[c]) :
                    fp_calls[c][i].text = B64Encode(ContentA)
               /\ hasil_dict[c].status = "OK"
                    => (NameA \in DOMAIN files /\ files[NameA] = ContentA)

\* C25: when a stress-client DOWNLOAD task reports success for a file, the
\* bytes it wrote and counted in bytes_processed equal the content of that
\* file on the server, with the response format this server sends.
C25_DownloadedEqualsStored ==
    \A g \in Conns :
        (Finished(g) /\ request[g] = GetA /\ sent[g] # <<>>
                /\ DownloadSuccess(sent[g][1]))
            => /\ NameA \in DOMAIN files
               /\ decoded_content(sent[g][1]) = files[NameA]

\* The file-store operation a command word names.
OpOf(command) ==
    IF command = CmdLIST THEN "list"
    ELSE IF command = CmdGET THEN "get"
    ELSE IF command = CmdDELETE THEN "delete"
    ELSE "upload"

\* C26: the header the server parses is the byte sequence before the first
\* \r\n\r\n of the whole stream, for every split of the stream into recv()
\* chunks, splits that cut the delimiter included: the receive loop goes on
\* exactly as long as the buffer holds no delimiter, the header taken is
\* that of the stream, and the operation invoked and its filename are those
\* of the stream's header.
C26_HeaderIndependentOfChunks ==
    \A c \in Conns :
        /\ cstate[c] = "recv" => ~Framed(full_data_buffer(c))
        /\ cstate[c] = "dispatch"
            => /\ Framed(full_data_buffer(c))
               /\ HeaderBytes(full_data_buffer(c)) = HeaderBytes(Stream(c))
        /\ fp_calls[c] # <<>>
            => LET h == Decode(HeaderBytes(Stream(c)))
               IN  /\ fp_calls[c][1].op = OpOf(Command(h))
                   /\ Params(h) # <<>> => fp_calls[c][1].params[1] = Params(h)[1]

\* An upload has been carried out on a buffer that ended with the delimiter,
\* the body still to come in a later chunk, under the name in the header.
C26_Witness ==
    \E c \in Conns :
        /\ Finished(c)
        /\ request[c] \in UploadRequests
        /\ recvd[c] = Find(Stream(c)) + 3
        /\ recvd[c] < Len(Stream(c))
        /\ fp_calls[c] # <<>>
        /\ fp_calls[c][1].params = <<NameA>>

\* The write of the response of connection c has failed.
WriteFailed(c) == Finished(c) /\ hasil_dict[c] # Unbound /\ sent[c] = <<>>

\* C27: when writing the response fails, the connection is still closed, the
\* failure does not leave process_client_request, and what the request has
\* done to the file store stays: an uploaded file is there with the content
\* handed to the store, a deleted file is gone.
C27_WriteFailureContained ==
    \A c \in Conns :
        WriteFailed(c)
            => /\ ~sock_open[c]
               /\ ~escaped[c]
               /\ (fp_calls[c] # <<>> /\ hasil_dict[c].status = "OK")
                    => /\ fp_calls[c][1].op = "upload"
                            => /\ NameA \in DOMAIN files
                               /\ files[NameA] = B64Decode(fp_calls[c][1].text)
                       /\ fp_calls[c][1].op = "delete" => NameA \notin DOMAIN files

\* An upload has been stored, the write of its OK response has failed and
\* the connection is closed.
C27_Witness ==
    \E c \in Conns :
        /\ WriteFailed(c)
        /\ ClientEnd(c) = "drop"
        /\ hasil_dict[c].status = "OK"
        /\ fp_calls[c] # <<>>
        /\ fp_calls[c][1].op = "upload"
        /\ NameA \in DOMAIN files
        /\ ~sock_open[c]

\* The workers that hold connection c, and how often it is in the queue.
Holders(c) == {w \in Workers : worker[w] = c}
TimesQueued(c) == Cardinality({i \in 1..Len(work_queue) : work_queue[i] = c})
\* accept() has returned c.
Accepted(c) == cstate[c] \notin {"none", "backlog", "reset"}
\* c has been handed to the pool.
Submitted(c) == cstate[c] \in {"queued", "recv", "dispatch", "respond", "finished"}

\* C28: every connection returned by accept() is either submitted to the
\* pool exactly once or closed by the listener, never both and never
\* neither: while the listener decides it holds the connection, afterwards
\* the connection is submitted or refused; a refused one is closed and was
\* never queued or processed; a submitted one is in the queue once or with
\* one worker, is left open by the listener until its worker closes it, and
\* is no longer the listener's.
C28_SubmittedOnceOrClosed ==
    \A c \in Conns :
        /\ Accepted(c) =>
                \/ cstate[c] = "accepted" /\ connection = c
                \/ cstate[c] = "refused" /\ connection # c
                \/ Submitted(c) /\ connection # c
        /\ cstate[c] = "accepted" => TimesQueued(c) = 0 /\ Holders(c) = {} /\ sock_open[c]
        /\ cstate[c] = "refused" =>
                /\ ~sock_open[c]
                /\ TimesQueued(c) = 0 /\ Holders(c) = {}
                /\ recvd[c] = 0 /\ sent[c] = <<>> /\ fp_calls[c] = <<>>
                /\ hasil_dict[c] = Unbound
        /\ cstate[c] = "queued" =>
                TimesQueued(c) = 1 /\ Holders(c) = {} /\ sock_open[c]
        /\ cstate[c] \in {"recv", "dispatch", "respond"} =>
                TimesQueued(c) = 0 /\ Cardinality(Holders(c)) = 1 /\ sock_open[c]
        /\ cstate[c] = "finished" => TimesQueued(c) = 0 /\ Holders(c) = {}
        /\ ~Accepted(c) => TimesQueued(c) = 0 /\ Holders(c) = {} /\ connection # c

\* One connection was submitted and has been answered by a worker, another
\* was accepted during shutdown and closed by the listener.
C28_Witness ==
    \E c \in Conns : \E d \in Conns :
        /\ Finished(c)
        /\ sent[c] # <<>>
        /\ cstate[d] = "refused"
        /\ ~sock_open[d]
=============================================================================
